---- MODULE Spec2Model ----
(***************************************************************************)
(* A model of the OpenEMR OAuth2 client (ai_agent/openemr_client.py) and   *)
(* of the find_appointments tool built on it.                              *)
(*                                                                         *)
(* The client is an asyncio object shared by several callers.  A coroutine *)
(* runs without interruption between two awaits of network I/O, so every   *)
(* action below is one such stretch of code: from the resumption of a      *)
(* caller (a response arrives) to its next request (or to its return).     *)
(***************************************************************************)
EXTENDS Integers, Sequences, FiniteSets, TLC

\* ---------------------------------------------------------------- bounds
\* Number of get()/post() invocations (coroutines) sharing the client.
NumCalls == 2
\* The clock advances MaxTicks times, by TickSecs seconds each time.
MaxTicks == 1
TickSecs == 30

\* The filtering stage is applied to every sequence of at most MaxRecs records.
MaxRecs == 2

\* ------------------------------------------------------ program constants
TOKEN_REFRESH_MARGIN_SECS == 60
DEFAULT_EXPIRES_IN == 3600
\* len(patients) > 5: more candidates than this are not resolved.
MAX_RESOLVED == 5
\* patients[:10]: at most this many candidates are listed.
MAX_DISPLAYED == 10
None == 0
TimedOut == -1

\* The get()/post() invocations of the specification Spec.
Calls == 1..NumCalls
\* The get() invocations one find_appointments call can make: two patient
\* searches and one fetch per resolved patient (or the unscoped fetch).
FindCalls == 1..(MAX_RESOLVED + 2)

\* Lifetimes (expires_in) the token endpoint may report.
Lifetimes == {60, 90}

\* What the token endpoint may answer.  A 200 answer carries a JSON payload
\* that may lack "expires_in", lack "access_token", or hold an "expires_in"
\* that int() rejects; the request may also time out.
AuthResponses ==
    {[status |-> 200, shape |-> "full", expires_in |-> l, body |-> "json"] : l \in Lifetimes}
    \cup {[status |-> 200, shape |-> "no_expires_in", expires_in |-> 0, body |-> "json"],
          [status |-> 200, shape |-> "no_access_token", expires_in |-> 0, body |-> "json"],
          [status |-> 200, shape |-> "bad_expires_in", expires_in |-> 0, body |-> "json"],
          [status |-> 400, shape |-> "error", expires_in |-> 0, body |-> "invalid_grant"],
          [status |-> TimedOut, shape |-> "timeout", expires_in |-> 0, body |-> ""]}

\* What a resource endpoint may answer (TimedOut: no answer in time).
ResStatuses == {200, 401, 500, TimedOut}

VARIABLES
    access_token,    \* self._access_token: None, or the token an exchange returned
    token_expiry,    \* self._token_expiry
    expiry_exchange, \* history: the exchange whose lifetime token_expiry was computed from
    now,             \* time.monotonic()
    exchanges,       \* number of token requests sent so far
    pc,              \* per call: the await it is suspended at, "idle" before, "done" after
    bearer,          \* per call: the token in the header of its latest resource request
    trace,           \* per call in progress, history: its requests and their answers
    outcome,         \* how the call that finished last ended, with its trace and bearer
    ens,             \* history: token requests of the last _ensure_token call, and
                     \* whether a 401 has triggered authenticate() since
    \* find_appointments (constant under Spec)
    fpc,             \* where find_appointments is: the get() it awaits, or how it ended
    args,            \* its arguments
    fget,            \* number of get() calls it has made
    requests,        \* history: the endpoints of those calls, in order
    pids,            \* resolved_pids
    raw,             \* raw_appointments
    found,           \* history: the candidate list each answered patient search yielded
    result,          \* what it returned or raised
    closed,          \* number of client.close() calls
    \* register_client (constant except under SpecRegister)
    reg              \* how the register_client call that finished last ended

cvars == <<access_token, token_expiry, expiry_exchange, now, exchanges,
           pc, bearer, trace, outcome, ens>>

fvars == <<fpc, args, fget, requests, pids, raw, found, result, closed>>

vars == <<cvars, fvars, reg>>

cred == <<access_token, token_expiry, expiry_exchange>>

\* Trace events: a token request, its answer (the status, as a string, or the
\* exception that processing it raised), a resource request, its answer.
TokReq == "tok"
TokAns(raises) == IF raises = "none" THEN "tok:200" ELSE "tok:" \o raises
ResReq == "res"
ResAns(s) ==
    CASE s = 200 -> "res:200" [] s = 401 -> "res:401" [] s = 403 -> "res:403"
      [] s = 500 -> "res:500" [] OTHER -> "res:Timeout"

NoOutcome == [kind |-> "none", status |-> 0, body |-> "", trace |-> <<>>, bearer |-> None]
Returned(c, tr) ==
    [kind |-> "ok", status |-> 200, body |-> "json", trace |-> tr, bearer |-> bearer[c]]
Raised(c, kind, status, body, tr) ==
    [kind |-> kind, status |-> status, body |-> body, trace |-> tr, bearer |-> bearer[c]]

\* The token endpoint returns a different token in every exchange: the one
\* call c asks for while at await p is named by this number (never None).
TokenOf(c, p) == 2 * c - (IF p = "wait_auth1" THEN 1 ELSE 0)

\* ------------------------------------------------------- OpenEMRClient
TokenIsValidReversed ==
    /\ access_token /= None
    /\ now > token_expiry - TOKEN_REFRESH_MARGIN_SECS

TokenIsValidInclusive ==
    /\ access_token /= None
    /\ now <= token_expiry - TOKEN_REFRESH_MARGIN_SECS

\* _token_is_valid()
TokenIsValid ==
    /\ access_token /= None
    /\ now < token_expiry - TOKEN_REFRESH_MARGIN_SECS

\* The exception authenticate() ends with on answer r ("none": it returns).
AuthRaises(r) ==
    CASE r.shape = "timeout" -> "Timeout"
      [] r.status /= 200 -> "AuthError"
      [] r.shape = "no_access_token" -> "KeyError"
      [] r.shape = "bad_expires_in" -> "ValueError"
      [] OTHER -> "none"

ExpiresInNoDefault(r) == r.expires_in

\* expires_in = int(payload.get("expires_in", 3600))
ExpiresIn(r) == IF r.shape = "no_expires_in" THEN DEFAULT_EXPIRES_IN ELSE r.expires_in

\* The credential after authenticate() has processed answer r of exchange id:
\* line 97 stores the token, line 98 may raise, line 99 stores the expiry.
AuthStore(r, id) ==
    CASE AuthRaises(r) = "none" -> <<id, now + ExpiresIn(r), id>>
      [] AuthRaises(r) = "ValueError" -> <<id, token_expiry, expiry_exchange>>
      [] OTHER -> cred

\* authenticate() up to its await: one token request.
SendTokenRequest(c, tr) ==
    /\ exchanges' = exchanges + 1
    /\ trace' = [trace EXCEPT ![c] = Append(tr, TokReq)]
    /\ UNCHANGED bearer

AuthHeadersStale(tok) == access_token

\* self._auth_headers(): the header carries the cached token tok.
AuthHeaders(tok) == tok

SendResourceRequestOldToken(c, tok, tr) ==
    /\ bearer' = [bearer EXCEPT ![c] = AuthHeaders(access_token)]
    /\ trace' = [trace EXCEPT ![c] = Append(tr, ResReq)]
    /\ UNCHANGED exchanges

\* self._http.get/post(path, headers=self._auth_headers()), tok the cached token.
SendResourceRequest(c, tok, tr) ==
    /\ bearer' = [bearer EXCEPT ![c] = AuthHeaders(tok)]
    /\ trace' = [trace EXCEPT ![c] = Append(tr, ResReq)]
    /\ UNCHANGED exchanges

CallStartNoReauth(c) ==
    /\ pc[c] = "idle"
    /\ TokenIsValid \/ exchanges = 0
    /\ IF TokenIsValid
       THEN /\ SendResourceRequest(c, access_token, <<>>)
            /\ pc' = [pc EXCEPT ![c] = "wait_resp1"]
       ELSE /\ SendTokenRequest(c, <<>>)
            /\ pc' = [pc EXCEPT ![c] = "wait_auth1"]
    /\ ens' = [n |-> exchanges' - exchanges, reauth |-> FALSE]
    /\ UNCHANGED <<cred, now, outcome>>

\* get()/post() from its entry to its first await: _ensure_token, then either
\* the token request or (valid token) the resource request.
CallStart(c) ==
    /\ pc[c] = "idle"
    /\ IF TokenIsValid
       THEN /\ SendResourceRequest(c, access_token, <<>>)
            /\ pc' = [pc EXCEPT ![c] = "wait_resp1"]
       ELSE /\ SendTokenRequest(c, <<>>)
            /\ pc' = [pc EXCEPT ![c] = "wait_auth1"]
    /\ ens' = [n |-> exchanges' - exchanges, reauth |-> FALSE]
    /\ UNCHANGED <<cred, now, outcome>>

\* get(path, params)
Get(c) == CallStart(c) /\ UNCHANGED <<fvars, reg>>

PostNoEnsure(c) ==
    /\ pc[c] = "idle"
    /\ SendResourceRequest(c, access_token, <<>>)
    /\ pc' = [pc EXCEPT ![c] = "wait_resp1"]
    /\ ens' = [n |-> 0, reauth |-> FALSE]
    /\ UNCHANGED <<cred, now, outcome, fvars, reg>>

\* post(path, json): the same steps, with self._http.post
Post(c) == CallStart(c) /\ UNCHANGED <<fvars, reg>>

AuthFailRetry(c, r) ==
    /\ pc' = pc
    /\ outcome' = outcome
    /\ bearer' = bearer
    /\ trace' = [trace EXCEPT ![c] = Append(Append(trace[c], TokAns(AuthRaises(r))), TokReq)]
    /\ exchanges' = exchanges + 1

\* authenticate() raises: the exception leaves get()/post().
AuthFail(c, r) ==
    /\ pc' = [pc EXCEPT ![c] = "done"]
    /\ outcome' = Raised(c, AuthRaises(r), r.status, r.body,
                          Append(trace[c], TokAns(AuthRaises(r))))
    /\ bearer' = [bearer EXCEPT ![c] = None]
    /\ trace' = [trace EXCEPT ![c] = <<>>]
    /\ UNCHANGED exchanges

\* The token endpoint answers call c with r: lines 87-102.
AuthAnswered(c, r) ==
    LET st == AuthStore(r, TokenOf(c, pc[c]))
    IN  /\ access_token' = st[1]
        /\ token_expiry' = st[2]
        /\ expiry_exchange' = st[3]
        /\ IF AuthRaises(r) = "none"
           THEN /\ SendResourceRequest(c, st[1], Append(trace[c], TokAns("none")))
                /\ pc' = [pc EXCEPT ![c] = IF pc[c] = "wait_auth1" THEN "wait_resp1" ELSE "wait_resp2"]
                /\ UNCHANGED outcome
           ELSE AuthFail(c, r)

\* The token endpoint answers call c: the rest of authenticate(), then the
\* (first or retried) resource request with the freshly built header.
AuthRecv(c) ==
    /\ pc[c] \in {"wait_auth1", "wait_auth2"}
    /\ \E r \in AuthResponses : AuthAnswered(c, r)
    /\ UNCHANGED <<now, ens, fvars, reg>>

FinishRetryTimeout(c, s) ==
    IF s = TimedOut
    THEN /\ pc' = pc
         /\ outcome' = outcome
         /\ bearer' = bearer
         /\ trace' = [trace EXCEPT ![c] = Append(Append(trace[c], ResAns(s)), ResReq)]
         /\ UNCHANGED <<exchanges, ens>>
    ELSE /\ pc' = [pc EXCEPT ![c] = "done"]
         /\ LET tr == Append(trace[c], ResAns(s))
            IN  outcome' = IF s \in 200..299 THEN Returned(c, tr)
                           ELSE Raised(c, "HttpError", s, "body", tr)
         /\ bearer' = [bearer EXCEPT ![c] = None]
         /\ trace' = [trace EXCEPT ![c] = <<>>]
         /\ UNCHANGED <<exchanges, ens>>

\* resp.raise_for_status(); return resp.json()
Finish(c, s) ==
    /\ pc' = [pc EXCEPT ![c] = "done"]
    /\ LET tr == Append(trace[c], ResAns(s))
       IN  outcome' = IF s = TimedOut THEN Raised(c, "Timeout", s, "", tr)
                      ELSE IF s \in 200..299 THEN Returned(c, tr)
                      ELSE Raised(c, "HttpError", s, "body", tr)
    /\ bearer' = [bearer EXCEPT ![c] = None]
    /\ trace' = [trace EXCEPT ![c] = <<>>]
    /\ UNCHANGED <<exchanges, ens>>

RecvFirstReauthAnyError(c) ==
    /\ pc[c] = "wait_resp1"
    /\ \E s \in ResStatuses :
        IF s \in {401, 500}
        THEN /\ SendTokenRequest(c, Append(trace[c], ResAns(s)))
             /\ pc' = [pc EXCEPT ![c] = "wait_auth2"]
             /\ ens' = [ens EXCEPT !.reauth = TRUE]
             /\ UNCHANGED outcome
        ELSE Finish(c, s)
    /\ UNCHANGED <<cred, now, fvars, reg>>

\* The first resource request is answered: on 401 authenticate() is called.
RecvFirst(c) ==
    /\ pc[c] = "wait_resp1"
    /\ \E s \in ResStatuses :
        IF s = 401
        THEN /\ SendTokenRequest(c, Append(trace[c], ResAns(s)))
             /\ pc' = [pc EXCEPT ![c] = "wait_auth2"]
             /\ ens' = [ens EXCEPT !.reauth = TRUE]
             /\ UNCHANGED outcome
        ELSE Finish(c, s)
    /\ UNCHANGED <<cred, now, fvars, reg>>

RecvRetryAgain(c) ==
    /\ pc[c] = "wait_resp2"
    /\ \E s \in ResStatuses :
        IF s = 401
        THEN /\ SendTokenRequest(c, Append(trace[c], ResAns(s)))
             /\ pc' = [pc EXCEPT ![c] = "wait_auth2"]
             /\ UNCHANGED <<outcome, ens>>
        ELSE Finish(c, s)
    /\ UNCHANGED <<cred, now, fvars, reg>>

RecvRetryResend(c) ==
    /\ pc[c] = "wait_resp2"
    /\ \E s \in ResStatuses :
        IF s = 401
        THEN /\ trace' = [trace EXCEPT ![c] = Append(Append(trace[c], ResAns(s)), ResReq)]
             /\ UNCHANGED <<pc, bearer, outcome, exchanges, ens>>
        ELSE Finish(c, s)
    /\ UNCHANGED <<cred, now, fvars, reg>>

\* The retried resource request is answered.
RecvRetry(c) ==
    /\ pc[c] = "wait_resp2"
    /\ \E s \in ResStatuses : Finish(c, s)
    /\ UNCHANGED <<cred, now, fvars, reg>>

\* Time passes.
Tick ==
    /\ now < MaxTicks * TickSecs
    /\ now' = now + TickSecs
    /\ UNCHANGED <<cred, exchanges, pc, bearer, trace, outcome, ens, fvars, reg>>

\* OpenEMRClient.__init__, for the calls cs that will use the client
ClientInit(cs) ==
    /\ access_token = None
    /\ token_expiry = 0
    /\ expiry_exchange = 0
    /\ now = 0
    /\ exchanges = 0
    /\ pc = [c \in cs |-> "idle"]
    /\ bearer = [c \in cs |-> None]
    /\ trace = [c \in cs |-> <<>>]
    /\ outcome = NoOutcome
    /\ ens = [n |-> 0, reauth |-> FALSE]

NoResult ==
    [kind |-> "none", appointments |-> <<>>, total_count |-> 0, message |-> "",
     matching_patients |-> <<>>, status |-> 0]

NoArgs ==
    [patient_name |-> "", date |-> "", provider_name |-> <<>>, status |-> "",
     patient_id |-> <<>>]

\* register_client has not been called.
NotRegistered == [kind |-> "none", status |-> 0, value |-> [k \in {} |-> ""]]

\* find_appointments has not been called (with arguments a)
FindIdle(a) ==
    /\ fpc = "init"
    /\ args = a
    /\ fget = 0
    /\ requests = <<>>
    /\ pids = <<>>
    /\ raw = <<>>
    /\ found = <<>>
    /\ result = NoResult
    /\ closed = 0

\* A client shared by the calls of Calls.
Init == ClientInit(Calls) /\ FindIdle(NoArgs) /\ reg = NotRegistered

Next ==
    \/ \E c \in Calls : Get(c)
    \/ \E c \in Calls : Post(c)
    \/ \E c \in Calls : AuthRecv(c)
    \/ \E c \in Calls : RecvFirst(c)
    \/ \E c \in Calls : RecvRetry(c)
    \/ Tick

Spec == Init /\ [][Next]_vars

\* ------------------------------------------------------ register_client
\* What the registration endpoint answers: a status, or no answer in time.
RegStatuses == {200, 201, 400, 500, TimedOut}
\* The JSON of a successful registration.
RegistrationResponse == [client_id |-> "id", client_secret |-> "secret"]

RegReturned(s) == [kind |-> "returned", status |-> s, value |-> RegistrationResponse]
RegRaised(k, s) == [kind |-> k, status |-> s, value |-> [f \in {} |-> ""]]

\* register_client accepting 200 alone
RegistrationOutcomeOnly200(s) ==
    IF s = TimedOut THEN RegRaised("Timeout", s)
    ELSE IF s /= 200 THEN RegRaised("AuthError", s)
    ELSE RegReturned(s)

\* Lines 183-204 on the answer s: the timeout of http.post propagates, a
\* status other than 200 and 201 raises OpenEMRAuthError, resp.json() is
\* returned otherwise.
RegistrationOutcome(s) ==
    IF s = TimedOut THEN RegRaised("Timeout", s)
    ELSE IF s \notin {200, 201} THEN RegRaised("AuthError", s)
    ELSE RegReturned(s)

\* OpenEMRClient.register_client, a static method: it posts through an
\* httpx.AsyncClient of its own and has no instance to read or to write.
RegisterClient ==
    /\ \E s \in RegStatuses : reg' = RegistrationOutcome(s)
    /\ UNCHANGED <<cvars, fvars>>

\* One call of the client's get() and any number of registrations, in any order.
InitRegister == ClientInit({1}) /\ FindIdle(NoArgs) /\ reg = NotRegistered

NextRegister ==
    \/ Get(1)
    \/ AuthRecv(1)
    \/ RecvFirst(1)
    \/ RecvRetry(1)
    \/ Tick
    \/ RegisterClient

SpecRegister == InitRegister /\ [][NextRegister]_vars

\* --------------------------------------------------- find_appointments
\* The arguments of one call; "" (<<>>) stands for None: an absent and an
\* empty string take the same branch of every test of the code (if x:).
ArgSets ==
    [patient_name : {"", "Smith"},
     date : {"", "D1"},
     provider_name : {<<>>, <<"B", "O">>},
     status : {"", "@"},
     patient_id : {<<>>, <<10>>}]

\* _STATUS_LABELS
STATUS_LABELS ==
    [code \in {"-", "@", "~", "!", "#", "<", ">", "$", "%", "x", "^"} |->
        CASE code = "-" -> "Open"
          [] code = "@" -> "Arrived"
          [] code = "~" -> "Arrived late"
          [] code = "!" -> "Left w/o being seen"
          [] code = "#" -> "Ins/fin issue"
          [] code = "<" -> "In exam room"
          [] code = ">" -> "Checked out"
          [] code = "$" -> "Coding done"
          [] code = "%" -> "Cancelled"
          [] code = "x" -> "No show"
          [] code = "^" -> "Pending"]

StatusLabelBlankUnknown(code) ==
    IF code \in DOMAIN STATUS_LABELS THEN STATUS_LABELS[code] ELSE ""

\* _STATUS_LABELS.get(status_code, status_code)
StatusLabel(code) == IF code \in DOMAIN STATUS_LABELS THEN STATUS_LABELS[code] ELSE code

\* Patient records the patient search may return (pid 0: no usable pid).
Patient(i) == [pid |-> i, fname |-> "F", lname |-> "L", DOB |-> "1970-01-01"]
Pats(n) == [i \in 1..n |-> Patient(i)]
PatientLists ==
    {Pats(n) : n \in {0, 1, MAX_RESOLVED, MAX_RESOLVED + 1, MAX_DISPLAYED + 1}}
    \cup {<<Patient(0)>>, <<Patient(0), Patient(7)>>}

\* Appointment records a fetch may return for patient p (0: the unscoped
\* fetch).  Names are sequences of characters.  The first record meets the
\* date and status filters of ArgSets, the second one the provider filter.
Appt(p, k) ==
    IF k = 1
    THEN [pc_eid |-> 2 * p + 1, pc_pid |-> p, pid |-> p,
          pc_eventDate |-> "D1", pc_apptstatus |-> "@",
          pce_aid_fname |-> <<"A">>, pce_aid_lname |-> <<"C">>]
    ELSE [pc_eid |-> 2 * p + 2, pc_pid |-> p, pid |-> p,
          pc_eventDate |-> "D2", pc_apptstatus |-> "-",
          pce_aid_fname |-> <<>>, pce_aid_lname |-> <<"b", "o">>]
ApptLists(p) == {<<>>, <<Appt(p, 1), Appt(p, 2)>>}

\* A JSON answer: a bare list, an object holding the list under "data", or
\* another (non-empty) object.
Bodies(lists) ==
    {[shape |-> sh, items |-> l] : sh \in {"list", "envelope"}, l \in lists}
    \cup {[shape |-> "object", items |-> <<>>]}

DataOfNoEnvelope(body) ==
    IF body.shape = "list"
    THEN [islist |-> TRUE, items |-> body.items]
    ELSE [islist |-> FALSE, items |-> <<>>]

\* resp.get("data", resp) if isinstance(resp, dict) else resp
DataOf(body) ==
    IF body.shape \in {"list", "envelope"}
    THEN [islist |-> TRUE, items |-> body.items]
    ELSE [islist |-> FALSE, items |-> <<>>]

\* bool(data): an empty list is falsy, a non-empty list or object is not.
Truthy(data) == ~data.islist \/ data.items /= <<>>

\* data if isinstance(data, list) else []
ListOf(data) == IF data.islist THEN data.items ELSE <<>>

LowerChar(ch) ==
    CASE ch = "A" -> "a" [] ch = "B" -> "b" [] ch = "C" -> "c" [] ch = "O" -> "o"
      [] OTHER -> ch
\* str.lower()
Lower(str) == [i \in 1..Len(str) |-> LowerChar(str[i])]
\* needle in haystack
IsSubstring(needle, haystack) ==
    \E i \in 0..(Len(haystack) - Len(needle)) :
        SubSeq(haystack, i + 1, i + Len(needle)) = needle

\* A record is a function from the keys it has to their values.
\* appt.get(key, default)
Field(appt, key, default) == IF key \in DOMAIN appt THEN appt[key] ELSE default

\* None as the value of a formatted field (a JSON null): it differs from every
\* string a record holds.
Null == "null"

\* _matches_provider
MatchesProvider(appt, provider_name) ==
    IsSubstring(Lower(provider_name),
                Lower(Field(appt, "pce_aid_fname", <<>>) \o <<" ">>
                        \o Field(appt, "pce_aid_lname", <<>>)))

\* " ".join(p for p in provider_parts if p)
ProviderName(appt) ==
    LET first == Field(appt, "pce_aid_fname", <<>>)
        last == Field(appt, "pce_aid_lname", <<>>)
    IN  IF first = <<>> THEN last
        ELSE IF last = <<>> THEN first
        ELSE first \o <<" ">> \o last

PatientNameUnstripped(appt) ==
    Field(appt, "fname", "") \o " " \o Field(appt, "lname", "")

\* f"{appt.get('fname', '')} {appt.get('lname', '')}".strip()
PatientName(appt) ==
    LET first == Field(appt, "fname", "")
        last == Field(appt, "lname", "")
    IN  IF first = "" THEN last
        ELSE IF last = "" THEN first
        ELSE first \o " " \o last

\* appt.get("pc_pid") or appt.get("pid"): a pc_pid that is missing or 0 is falsy.
PatientId(appt) ==
    IF "pc_pid" \in DOMAIN appt /\ appt.pc_pid /= 0 THEN appt.pc_pid
    ELSE Field(appt, "pid", Null)

\* _format_appointment
FormatAppointment(appt) ==
    [appointment_id |-> Field(appt, "pc_eid", Null),
     patient_name |-> PatientName(appt),
     patient_id |-> PatientId(appt),
     provider_name |-> ProviderName(appt),
     date |-> Field(appt, "pc_eventDate", ""),
     start_time |-> Field(appt, "pc_startTime", ""),
     end_time |-> Field(appt, "pc_endTime", ""),
     status |-> Field(appt, "pc_apptstatus", ""),
     status_label |-> StatusLabel(Field(appt, "pc_apptstatus", "")),
     category |-> Field(appt, "pc_title", ""),
     facility |-> Field(appt, "facility_name", ""),
     reason |-> Field(appt, "pc_hometext", "")]

\* The client-side filtering of _find_appointments_impl: date, status, provider.
FilterByDate(recs, a) ==
    IF a.date /= ""
    THEN SelectSeq(recs, LAMBDA r : Field(r, "pc_eventDate", "") = a.date)
    ELSE recs
FilterByStatus(recs, a) ==
    IF a.status /= ""
    THEN SelectSeq(recs, LAMBDA r : Field(r, "pc_apptstatus", "") = a.status)
    ELSE recs
FilterByProviderHead(recs, a) ==
    IF a.provider_name /= <<>>
    THEN SelectSeq(IF recs = <<>> THEN recs ELSE <<recs[1]>>,
                   LAMBDA r : MatchesProvider(r, a.provider_name))
    ELSE recs
FilterByProvider(recs, a) ==
    IF a.provider_name /= <<>>
    THEN SelectSeq(recs, LAMBDA r : MatchesProvider(r, a.provider_name))
    ELSE recs
FilteredUnion(recs, a) ==
    SelectSeq(recs, LAMBDA r :
        \/ a.date /= "" /\ r.pc_eventDate = a.date
        \/ a.status /= "" /\ r.pc_apptstatus = a.status
        \/ a.provider_name /= <<>> /\ MatchesProvider(r, a.provider_name)
        \/ a.date = "" /\ a.status = "" /\ a.provider_name = <<>>)
FilteredReversed(recs, a) ==
    LET f == FilterByProvider(FilterByStatus(FilterByDate(recs, a), a), a)
    IN  [i \in 1..Len(f) |-> f[Len(f) + 1 - i]]

Filtered(recs, a) == FilterByProvider(FilterByStatus(FilterByDate(recs, a), a), a)

\* "{fname} {lname}".strip()
FullName(p) ==
    IF p.fname = "" THEN p.lname
    ELSE IF p.lname = "" THEN p.fname
    ELSE p.fname \o " " \o p.lname

\* The entries of matching_patients: for p in patients[:10]
Matches(patients) ==
    [i \in 1..(IF Len(patients) < MAX_DISPLAYED THEN Len(patients) ELSE MAX_DISPLAYED) |->
        [patient_id |-> patients[i].pid, name |-> FullName(patients[i]), DOB |-> patients[i].DOB]]

ResolvedPidsFirstOnly(patients) ==
    LET usable == SelectSeq(patients, LAMBDA p : p.pid /= 0)
    IN  [i \in 1..(IF usable = <<>> THEN 0 ELSE 1) |-> usable[i].pid]

\* [p["pid"] for p in patients if p.get("pid")]
ResolvedPids(patients) ==
    LET usable == SelectSeq(patients, LAMBDA p : p.pid /= 0)
    IN  [i \in 1..Len(usable) |-> usable[i].pid]

\* The tool returns d: leaving "async with client" closes the client.
Return(d) ==
    /\ result' = d
    /\ fpc' = "returned"
    /\ closed' = closed + 1
    /\ UNCHANGED <<fget, requests, pids>>
    /\ UNCHANGED cvars

Swallow ==
    /\ Return([NoResult EXCEPT !.kind = "result",
                   !.message = "No appointments found matching criteria."])
    /\ UNCHANGED raw

PropagateLeavesOpen ==
    /\ result' = [NoResult EXCEPT
            !.kind = IF outcome.kind \in {"Timeout", "HttpError"}
                     THEN "ToolException" ELSE outcome.kind,
            !.message = IF outcome.kind = "Timeout" THEN "OpenEMR API timed out"
                        ELSE IF outcome.kind = "HttpError" THEN "OpenEMR API error"
                        ELSE outcome.body,
            !.status = outcome.status]
    /\ fpc' = "raised"
    /\ UNCHANGED <<fget, requests, pids, raw, closed>>
    /\ UNCHANGED cvars

\* The get() that find_appointments awaits has raised: nothing in
\* _find_appointments_impl catches it, the client is closed, and the wrapper
\* turns a timeout and an HTTP status error into a ToolException and lets any
\* other exception through.
Propagate ==
    /\ result' = [NoResult EXCEPT
            !.kind = IF outcome.kind \in {"Timeout", "HttpError"}
                     THEN "ToolException" ELSE outcome.kind,
            !.message = IF outcome.kind = "Timeout" THEN "OpenEMR API timed out"
                        ELSE IF outcome.kind = "HttpError" THEN "OpenEMR API error"
                        ELSE outcome.body,
            !.status = outcome.status]
    /\ fpc' = "raised"
    /\ closed' = closed + 1
    /\ UNCHANGED <<fget, requests, pids, raw>>
    /\ UNCHANGED cvars

\* await client.get(endpoint): the call runs up to its first request.
StartGet(endpoint, pid) ==
    /\ fget' = fget + 1
    /\ requests' = Append(requests, [ep |-> endpoint, pid |-> pid])
    /\ CallStart(fget + 1)

\* The get() that find_appointments awaits has ended.
GetEnded == fget > 0 /\ pc[fget] = "done"

\* Number of per-patient fetches started so far.
Fetched == Cardinality({i \in 1..Len(requests) : requests[i].ep = "patient_appointment"})

\* The fetch phase begins with resolved_pids = ps (lines 159-166).
StartFetching(ps) ==
    /\ pids' = ps
    /\ IF ps /= <<>>
       THEN /\ StartGet("patient_appointment", ps[1])
            /\ fpc' = "fetch"
       ELSE /\ StartGet("appointment", 0)
            /\ fpc' = "all"
    /\ UNCHANGED <<raw, result, closed>>

FinishFindAlwaysMessage(recs) ==
    LET filtered == Filtered(recs, args)
        appointments == [i \in 1..Len(filtered) |-> FormatAppointment(filtered[i])]
    IN  /\ raw' = recs
        /\ Return([NoResult EXCEPT
                !.kind = "result",
                !.appointments = appointments,
                !.total_count = Len(appointments),
                !.message = "No appointments found matching criteria."])

FinishFindCountsFetched(recs) ==
    LET filtered == Filtered(recs, args)
        appointments == [i \in 1..Len(filtered) |-> FormatAppointment(filtered[i])]
    IN  /\ raw' = recs
        /\ Return([NoResult EXCEPT
                !.kind = "result",
                !.appointments = appointments,
                !.total_count = Len(recs),
                !.message = IF appointments = <<>>
                            THEN "No appointments found matching criteria." ELSE ""])

\* Filtering and formatting of the fetched records recs, and the return
\* (lines 169-188).
FinishFind(recs) ==
    LET filtered == Filtered(recs, args)
        appointments == [i \in 1..Len(filtered) |-> FormatAppointment(filtered[i])]
    IN  /\ raw' = recs
        /\ Return([NoResult EXCEPT
                !.kind = "result",
                !.appointments = appointments,
                !.total_count = Len(appointments),
                !.message = IF appointments = <<>>
                            THEN "No appointments found matching criteria." ELSE ""])

ResolveNoThreshold(patients) ==
    IF patients = <<>>
    THEN /\ Return([NoResult EXCEPT !.kind = "result",
                        !.message = "No patients found matching."])
         /\ UNCHANGED raw
    ELSE StartFetching(ResolvedPids(patients))

ResolveThresholdSix(patients) ==
    IF patients = <<>>
    THEN /\ Return([NoResult EXCEPT !.kind = "result",
                        !.message = "No patients found matching."])
         /\ UNCHANGED raw
    ELSE IF Len(patients) > MAX_RESOLVED + 1
    THEN /\ Return([NoResult EXCEPT !.kind = "result",
                        !.message = "Multiple patients match. Please clarify which patient.",
                        !.matching_patients = Matches(patients)])
         /\ UNCHANGED raw
    ELSE StartFetching(ResolvedPids(patients))

ResolveEmptyFetchesAll(patients) ==
    IF Len(patients) > MAX_RESOLVED
    THEN /\ Return([NoResult EXCEPT !.kind = "result",
                        !.message = "Multiple patients match. Please clarify which patient.",
                        !.matching_patients = Matches(patients)])
         /\ UNCHANGED raw
    ELSE StartFetching(ResolvedPids(patients))

\* The patient search ended with the list patients (lines 135-156).
Resolve(patients) ==
    IF patients = <<>>
    THEN /\ Return([NoResult EXCEPT !.kind = "result",
                        !.message = "No patients found matching."])
         /\ UNCHANGED raw
    ELSE IF Len(patients) > MAX_RESOLVED
    THEN /\ Return([NoResult EXCEPT !.kind = "result",
                        !.message = "Multiple patients match. Please clarify which patient.",
                        !.matching_patients = Matches(patients)])
         /\ UNCHANGED raw
    ELSE StartFetching(ResolvedPids(patients))

FindStartNameFirst ==
    /\ fpc = "init"
    /\ IF args.patient_name /= ""
       THEN /\ StartGet("patient?lname", 0)
            /\ fpc' = "lname"
            /\ UNCHANGED <<pids, raw, result, closed>>
       ELSE StartFetching(args.patient_id)
    /\ UNCHANGED <<args, found, reg>>

\* find_appointments is called: the client is created, and
\* _find_appointments_impl runs to its first get().
FindStart ==
    /\ fpc = "init"
    /\ IF args.patient_id /= <<>>
       THEN StartFetching(args.patient_id)
       ELSE IF args.patient_name /= ""
       THEN /\ StartGet("patient?lname", 0)
            /\ fpc' = "lname"
            /\ UNCHANGED <<pids, raw, result, closed>>
       ELSE StartFetching(<<>>)
    /\ UNCHANGED <<args, found, reg>>

\* The last-name search returned body (lines 92-98, 135-156).
LastNameAnswered(body) ==
    /\ found' = Append(found, ListOf(DataOf(body)))
    /\ IF ~Truthy(DataOf(body))
       THEN /\ StartGet("patient?fname", 0)
            /\ fpc' = "fname"
            /\ UNCHANGED <<pids, raw, result, closed>>
       ELSE Resolve(ListOf(DataOf(body)))

\* The last-name search is answered (_search_patients, lines 91-98).
AfterLastName ==
    /\ fpc = "lname" /\ GetEnded
    /\ IF outcome.kind /= "ok"
       THEN Propagate /\ UNCHANGED found
       ELSE \E body \in Bodies(PatientLists) : LastNameAnswered(body)
    /\ UNCHANGED <<args, reg>>

\* The first-name search returned body (lines 96-98, 135-156).
FirstNameAnswered(body) ==
    /\ found' = Append(found, ListOf(DataOf(body)))
    /\ Resolve(ListOf(DataOf(body)))

\* The first-name search is answered.
AfterFirstName ==
    /\ fpc = "fname" /\ GetEnded
    /\ IF outcome.kind /= "ok"
       THEN Propagate /\ UNCHANGED found
       ELSE \E body \in Bodies(PatientLists) : FirstNameAnswered(body)
    /\ UNCHANGED <<args, reg>>

AfterFetchPrepend ==
    /\ fpc = "fetch" /\ GetEnded
    /\ IF outcome.kind /= "ok"
       THEN Propagate
       ELSE \E body \in Bodies(ApptLists(pids[Fetched])) :
                LET recs == ListOf(DataOf(body)) \o raw
                IN  IF Fetched < Len(pids)
                    THEN /\ raw' = recs
                         /\ StartGet("patient_appointment", pids[Fetched + 1])
                         /\ UNCHANGED <<fpc, pids, result, closed>>
                    ELSE FinishFind(recs)
    /\ UNCHANGED <<args, found, reg>>

\* The fetch for one resolved patient returned body (lines 106-107, 162-164).
FetchAnswered(body) ==
    LET recs == raw \o ListOf(DataOf(body))
    IN  IF Fetched < Len(pids)
        THEN /\ raw' = recs
             /\ StartGet("patient_appointment", pids[Fetched + 1])
             /\ UNCHANGED <<fpc, pids, result, closed>>
        ELSE FinishFind(recs)

\* The fetch for one resolved patient is answered (lines 161-164).
AfterFetch ==
    /\ fpc = "fetch" /\ GetEnded
    /\ IF outcome.kind /= "ok"
       THEN Propagate
       ELSE \E body \in Bodies(ApptLists(pids[Fetched])) : FetchAnswered(body)
    /\ UNCHANGED <<args, found, reg>>

\* The unscoped fetch returned body (lines 115-116, 166-188).
AllAnswered(body) == FinishFind(ListOf(DataOf(body)))

\* The unscoped fetch is answered (line 166).
AfterAll ==
    /\ fpc = "all" /\ GetEnded
    /\ IF outcome.kind /= "ok"
       THEN Propagate
       ELSE \E body \in Bodies(ApptLists(0) \cup ApptLists(1)) : AllAnswered(body)
    /\ UNCHANGED <<args, found, reg>>

\* One find_appointments call, with any arguments, on the client it creates.
\* The clock stands still during the call: time passing between two get()
\* calls can only make the cached token invalid for the next one, which a
\* token with a lifetime of TOKEN_REFRESH_MARGIN_SECS already is.
InitFind == ClientInit(FindCalls) /\ (\E a \in ArgSets : FindIdle(a)) /\ reg = NotRegistered

NextFind ==
    \/ FindStart
    \/ AfterLastName
    \/ AfterFirstName
    \/ AfterFetch
    \/ AfterAll
    \/ \E c \in FindCalls : AuthRecv(c)
    \/ \E c \in FindCalls : RecvFirst(c)
    \/ \E c \in FindCalls : RecvRetry(c)

SpecFind == InitFind /\ [][NextFind]_vars

\* ------------------------------------------- the filtering stage alone
\* An appointment record with date d, status code s and provider last name l;
\* pc_eid tells the eight kinds apart.
Rec(d, s, l) ==
    [pc_eid |-> (IF d = "D1" THEN 0 ELSE 4) + (IF s = "@" THEN 0 ELSE 2)
                    + (IF l = <<"b", "o">> THEN 1 ELSE 2),
     pc_pid |-> 1, pid |-> 1,
     pc_eventDate |-> d, pc_apptstatus |-> s,
     pce_aid_fname |-> <<"A">>, pce_aid_lname |-> l]
FilterRecords == {Rec(d, s, l) : d \in {"D1", "D2"}, s \in {"@", "-"}, l \in {<<"b", "o">>, <<"C">>}}
\* The values of raw_appointments the stage is applied to.
RecordSeqs == UNION {[1..n -> FilterRecords] : n \in 0..MaxRecs}
\* The filter arguments: any combination of date, status and provider_name.
FilterArgSets == {a \in ArgSets : a.patient_name = "" /\ a.patient_id = <<>>}

\* raw_appointments has been fetched (line 166): any records, any filters.
InitFilter ==
    /\ ClientInit(FindCalls)
    /\ fpc = "fetched"
    /\ args \in FilterArgSets
    /\ raw \in RecordSeqs
    /\ fget = 0 /\ requests = <<>> /\ pids = <<>> /\ found = <<>>
    /\ result = NoResult /\ closed = 0
    /\ reg = NotRegistered

\* Lines 169-188 on raw_appointments.
ApplyFilters ==
    /\ fpc = "fetched"
    /\ FinishFind(raw)
    /\ UNCHANGED <<args, found, reg>>

NextFilter == ApplyFilters

SpecFilter == InitFilter /\ [][NextFilter]_vars

\* ------------------------------------------- the provider filter alone
\* Requested provider names: part of a name, a name with a space before or
\* after it, a space, a first and a last name.
ProviderNeedles == {<<"B", "O">>, <<" ", "b">>, <<"a", " ">>, <<" ">>, <<"a", " ", "b">>}
\* Records whose provider first and last names are missing, empty or present.
ProviderRecords ==
    {([pc_eid |-> 1] @@ f) @@ l :
        f \in {[k \in {} |-> ""], [pce_aid_fname |-> <<>>], [pce_aid_fname |-> <<"A">>]},
        l \in {[k \in {} |-> ""], [pce_aid_lname |-> <<>>], [pce_aid_lname |-> <<"b", "o">>]}}
ProviderRecordSeqs == UNION {[1..n -> ProviderRecords] : n \in 0..MaxRecs}

\* raw_appointments has been fetched, provider_name is the only filter.
InitProvider ==
    /\ ClientInit(FindCalls)
    /\ fpc = "fetched"
    /\ args \in {[NoArgs EXCEPT !.provider_name = n] : n \in ProviderNeedles}
    /\ raw \in ProviderRecordSeqs
    /\ fget = 0 /\ requests = <<>> /\ pids = <<>> /\ found = <<>>
    /\ result = NoResult
    /\ closed = 0 /\ reg = NotRegistered

SpecProvider == InitProvider /\ [][NextFilter]_vars

\* ------------------------------------------------- the formatter alone
\* The record with no key.
NoFields == [k \in {} |-> ""]
\* The status codes of _STATUS_LABELS, a code that is not in it, the empty code.
StatusCodes == DOMAIN STATUS_LABELS \cup {"Z", ""}
\* Raw appointment records with any of their fields missing: the appointment
\* id, the two patient ids (pc_pid may be 0), the patient's and the provider's
\* names, the status code, and the remaining fields (all or none).
FormatRecords ==
    {((((((e @@ p) @@ q) @@ n) @@ m) @@ v) @@ st) @@ o :
        e \in {NoFields, [pc_eid |-> 1]},
        p \in {NoFields, [pc_pid |-> 0], [pc_pid |-> 10]},
        q \in {NoFields, [pid |-> 20]},
        n \in {NoFields, [fname |-> "John"], [lname |-> "Doe"], [fname |-> "John", lname |-> "Doe"]},
        m \in {NoFields, [pce_aid_fname |-> <<"A">>, pce_aid_lname |-> <<>>],
               [pce_aid_fname |-> <<"A">>, pce_aid_lname |-> <<"b", "o">>]},
        v \in {NoFields, [pce_aid_lname |-> <<"C">>]},
        st \in {NoFields} \cup {[pc_apptstatus |-> code] : code \in StatusCodes},
        o \in {NoFields,
               [pc_eventDate |-> "D1", pc_startTime |-> "09:00", pc_endTime |-> "09:30",
                pc_title |-> "Office Visit", facility_name |-> "Main Clinic",
                pc_hometext |-> "Follow-up"]}}

\* One record has been fetched, no filter was supplied.
InitFormat ==
    /\ ClientInit(FindCalls)
    /\ fpc = "fetched"
    /\ args = NoArgs
    /\ raw \in {<<r>> : r \in FormatRecords}
    /\ fget = 0 /\ requests = <<>> /\ pids = <<>> /\ found = <<>>
    /\ result = NoResult /\ closed = 0
    /\ reg = NotRegistered

SpecFormat == InitFormat /\ [][NextFilter]_vars

\* ------------------------------------------------------------------------
\* Properties
\* ------------------------------------------------------------------------
TokAnswers == {TokAns(x) : x \in {"none", "AuthError", "Timeout", "KeyError", "ValueError"}}
ResAnswers == {ResAns(x) : x \in {200, 401, 403, 500, TimedOut}}

Count(tr, e) == Cardinality({i \in 1..Len(tr) : tr[i] = e})
CountFrom(tr, i, e) == Cardinality({j \in i..Len(tr) : tr[j] = e})
\* The place of the first resource answer in tr (0: none yet).
FirstAnswer(tr) ==
    IF \E i \in 1..Len(tr) : tr[i] \in ResAnswers
    THEN CHOOSE i \in 1..Len(tr) : tr[i] \in ResAnswers /\ \A j \in 1..(i - 1) : tr[j] \notin ResAnswers
    ELSE 0
First401(tr) == FirstAnswer(tr) > 0 /\ tr[FirstAnswer(tr)] = ResAns(401)

Finished == outcome.kind /= "none"
\* The traces of the calls in progress and of the call that finished last.
Traces == {trace[c] : c \in DOMAIN trace} \cup {outcome.trace}

\* The cached credential has more than the refresh margin left.
Fresh == access_token /= None /\ token_expiry - now > TOKEN_REFRESH_MARGIN_SECS
\* Call c enters get()/post() in this step.
EnsureStep(c) == pc[c] = "idle" /\ pc'[c] /= "idle"
\* Call c sends a resource request in this step.
SendsResource(c) ==
    /\ Len(trace'[c]) > Len(trace[c])
    /\ trace'[c][Len(trace'[c])] = ResReq

\* C1 as stated: a call whose first resource request was answered 401 has, when
\* it ends, sent exactly one token request and exactly one resource request
\* after that answer; a 401 answer to the retry ends it with the HTTP error.
C1_AsStated ==
    (Finished /\ First401(outcome.trace)) =>
        LET tr == outcome.trace
            i == FirstAnswer(tr)
        IN  /\ CountFrom(tr, i, TokReq) = 1
            /\ CountFrom(tr, i, ResReq) = 1
            /\ (tr[Len(tr)] = ResAns(401) =>
                    outcome.kind = "HttpError" /\ outcome.status = 401)

\* C1, amended: after a 401 answer to its first resource request a call sends
\* exactly one token request; it sends exactly one more resource request when
\* that exchange succeeds and none when it fails; a 401 answer to the retry
\* ends the call with the HTTP error; no call sends a third resource request.
C1_Retry ==
    \A tr \in Traces :
        /\ Count(tr, ResReq) <= 2
        /\ First401(tr) =>
            LET i == FirstAnswer(tr)
            IN  /\ CountFrom(tr, i, TokReq) = 1
                /\ CountFrom(tr, i, ResReq) = CountFrom(tr, i, TokAns("none"))
                /\ CountFrom(tr, i, ResReq) <= 1
                /\ (i < Len(tr) /\ tr[Len(tr)] = ResAns(401)) =>
                        /\ tr = outcome.trace
                        /\ outcome.kind = "HttpError" /\ outcome.status = 401
                        /\ Count(tr, ResReq) = 2

\* A call whose first request and whose retry were both answered 401 has ended.
C1_Witness ==
    /\ outcome.kind = "HttpError"
    /\ Count(outcome.trace, ResAns(401)) = 2
    /\ Count(outcome.trace, ResReq) = 2

\* C2: a call that enters _ensure_token with a credential that has more than
\* the margin left, no 401 having been answered since the previous
\* _ensure_token call, sends no token request, so the two calls together
\* send at most one.
C2_FreshNoExchange ==
    [][\A c \in DOMAIN pc :
        (EnsureStep(c) /\ Fresh /\ ~ens.reauth) =>
            /\ exchanges' = exchanges
            /\ ens.n + (exchanges' - exchanges) <= 1]_vars

\* A call has started on the credential an earlier call's exchange stored.
C2_Witness ==
    \E c \in DOMAIN pc :
        /\ pc[c] = "wait_resp1" /\ trace[c] = <<ResReq>>
        /\ ens = [n |-> 0, reauth |-> FALSE]
        /\ exchanges = 1

C4_AsStated ==
    [][\A c \in DOMAIN pc :
        SendsResource(c) =>
            /\ bearer'[c] = access_token'
            /\ token_expiry' - now' > TOKEN_REFRESH_MARGIN_SECS]_vars

\* The last call's re-authentication (after a 401) failed.
ReauthFailed ==
    /\ Finished
    /\ First401(outcome.trace)
    /\ outcome.trace[Len(outcome.trace)] \in TokAnswers \ {TokAns("none")}

\* C5 as stated: once the re-authentication triggered by a 401 has failed, the
\* rejected token is not cached as valid.
C5_AsStated ==
    ReauthFailed => ~(access_token = outcome.bearer /\ Fresh)

\* C6 as stated: the cached token and expiry change only in a step in which
\* authenticate() returns normally.
C6_AsStated ==
    [][(access_token' /= access_token \/ token_expiry' /= token_expiry) =>
        \E c \in DOMAIN pc :
            /\ pc[c] \in {"wait_auth1", "wait_auth2"}
            /\ pc'[c] \in {"wait_resp1", "wait_resp2"}]_vars

\* C7 as stated: the cached token and the cached expiry come from the same
\* exchange.
C7_AsStated ==
    expiry_exchange = access_token

\* C8 as stated: token exchanges are serialized, at most one is in flight.
C8_AsStated ==
    Cardinality({c \in DOMAIN pc : pc[c] \in {"wait_auth1", "wait_auth2"}}) <= 1

\* C9: every token request is answered at most once and is never followed by
\* another token request of the same authenticate(); an answer that makes
\* authenticate() fail ends the call; a non-200 answer ends it with the
\* authentication error carrying that status and body.
C9_OneRequestNoRetry ==
    /\ \A tr \in Traces : \A i \in 1..Len(tr) :
        /\ (tr[i] = TokReq /\ i < Len(tr)) => tr[i + 1] \in TokAnswers
        /\ tr[i] \in TokAnswers => (i > 1 /\ tr[i - 1] = TokReq)
        /\ tr[i] \in TokAnswers \ {TokAns("none")} => (i = Len(tr) /\ tr = outcome.trace)
    /\ (Finished /\ outcome.trace[Len(outcome.trace)] = TokAns("AuthError")) <=>
            outcome.kind = "AuthError"
    /\ outcome.kind = "AuthError" =>
            \E r \in AuthResponses :
                /\ r.status \notin {200, TimedOut}
                /\ outcome.status = r.status /\ outcome.body = r.body

\* authenticate() has failed on a 400 answer.
C9_Witness ==
    /\ outcome.kind = "AuthError" /\ outcome.status = 400
    /\ outcome.body = "invalid_grant"
    /\ Count(outcome.trace, TokReq) = 1

\* The outcomes with which find_appointments raises.
ErrorKinds == {"ToolException", "AuthError", "KeyError", "ValueError"}
\* find_appointments is suspended in a get() that has raised.
GetRaised == fpc \in {"lname", "fname", "fetch", "all"} /\ GetEnded /\ outcome.kind /= "ok"
\* The supplied criteria that appointment record r satisfies.
MeetsCriteria(r) ==
    /\ args.date /= "" => r.pc_eventDate = args.date
    /\ args.status /= "" => r.pc_apptstatus = args.status
    /\ args.provider_name /= <<>> => MatchesProvider(r, args.provider_name)

\* C10: when a get() made by find_appointments raises (authentication error,
\* non-2xx status, timeout, malformed token answer), find_appointments raises
\* too, makes no further request and returns no result dictionary; so when it
\* has returned, its last get() returned normally, and an empty appointments
\* list means that no fetched record satisfies the criteria.
C10_NeverSwallowed ==
    /\ [][GetRaised =>
            (fpc' /= fpc =>
                /\ fpc' = "raised"
                /\ result'.kind \in ErrorKinds
                /\ fget' = fget /\ closed' = 1)]_vars
    /\ [](fpc = "raised" => (GetEnded /\ outcome.kind /= "ok" /\ result.kind \in ErrorKinds))
    /\ [](fpc = "returned" =>
            /\ result.kind = "result"
            /\ GetEnded /\ outcome.kind = "ok"
            /\ result.appointments = <<>> =>
                    \A i \in 1..Len(raw) : ~MeetsCriteria(raw[i]))

\* A fetch timed out after an earlier fetch had returned records:
\* find_appointments raised and returned nothing.
C10_Witness ==
    /\ fpc = "raised" /\ result.kind = "ToolException"
    /\ outcome.kind = "Timeout"
    /\ fget > 1 /\ raw /= <<>>
    /\ result.appointments = <<>>

\* The endpoints find_appointments has requested, in order.
Endpoints == [i \in 1..Len(requests) |-> requests[i].ep]
Requested(ep) == \E i \in 1..Len(requests) : requests[i].ep = ep
\* The patients whose appointments have been requested, in order.
FetchedPids ==
    LET fetches == SelectSeq(requests, LAMBDA q : q.ep = "patient_appointment")
    IN  [i \in 1..Len(fetches) |-> fetches[i].pid]
\* The call went through the name search (no patient_id, a patient_name).
ByName == args.patient_id = <<>> /\ args.patient_name /= ""
\* The name search has ended with the candidates Candidates.
Searched ==
    /\ ByName /\ found /= <<>>
    /\ Len(found) = Len(SelectSeq(requests, LAMBDA q : q.ep \in {"patient?lname", "patient?fname"}))
Candidates == found[Len(found)]

\* C11 as stated: the unscoped appointment endpoint is requested only when
\* neither patient_id nor patient_name was supplied.
C11_AsStated ==
    Requested("appointment") => (args.patient_id = <<>> /\ args.patient_name = "")

IsPrefix(a, b) == Len(a) <= Len(b) /\ a = SubSeq(b, 1, Len(a))
\* The identifiers the candidates cs carry, in order (0: none carried).
Identifiers(cs) ==
    LET carrying == SelectSeq(cs, LAMBDA p : p.pid /= 0)
    IN  [i \in 1..Len(carrying) |-> carrying[i].pid]
NoMatchMessage == "No patients found matching."
AmbiguousMessage == "Multiple patients match. Please clarify which patient."

Min(a, b) == IF a < b THEN a ELSE b

\* C13 as stated: when the name search ends with more than 5 candidates, the
\* result lists the first 10 of them (all when there are at most 10) in search
\* order, and carries their true number, as its count or as the length of
\* the list.
C13_AsStated ==
    (Searched /\ Len(Candidates) > 5 /\ fpc = "returned") =>
        /\ result.message = AmbiguousMessage
        /\ Len(result.matching_patients) = Min(Len(Candidates), 10)
        /\ \A i \in 1..Len(result.matching_patients) :
                result.matching_patients[i].patient_id = Candidates[i].pid
        /\ \/ result.total_count = Len(Candidates)
           \/ Len(result.matching_patients) = Len(Candidates)

\* C14: a name search that ends with no candidate or with more than 5 ends
\* the call at once, with the NoMatch or Ambiguous result; a call that has
\* returned such a result has requested no appointment endpoint, per-patient
\* or unscoped, and returned an empty appointments list.
C14_ResolveBeforeFetch ==
    /\ (Searched /\ (Candidates = <<>> \/ Len(Candidates) > 5)) =>
            /\ fpc = "returned"
            /\ result.message = (IF Candidates = <<>> THEN NoMatchMessage ELSE AmbiguousMessage)
    /\ (fpc = "returned" /\ result.message \in {NoMatchMessage, AmbiguousMessage}) =>
            /\ ~Requested("patient_appointment")
            /\ ~Requested("appointment")
            /\ \A i \in 1..Len(requests) : requests[i].ep \in {"patient?lname", "patient?fname"}
            /\ result.appointments = <<>>
            /\ raw = <<>>

\* The first-name search found 6 candidates: the call returned them.
C14_Witness ==
    /\ fpc = "returned" /\ result.message = AmbiguousMessage
    /\ Endpoints = <<"patient?lname", "patient?fname">>
    /\ Len(result.matching_patients) = 6

\* C15: when patient_id is supplied, with or without patient_name, no patient
\* search is requested: the only request of the call is the appointment fetch
\* for that identifier, and resolved_pids holds exactly that identifier.
C15_IdShortCircuits ==
    (args.patient_id /= <<>> /\ fpc /= "init") =>
        /\ pids = args.patient_id
        /\ Len(requests) = 1
        /\ requests[1].ep = "patient_appointment"
        /\ requests[1].pid = args.patient_id[1]
        /\ found = <<>>

\* A call with both patient_id and patient_name has returned.
C15_Witness ==
    /\ fpc = "returned"
    /\ args.patient_id = <<10>> /\ args.patient_name = "Smith"
    /\ Endpoints = <<"patient_appointment">>
    /\ result.total_count = 2

\* C16 as stated: a name search requests the last-name query first; the
\* first-name query is requested only after the last-name query, only when
\* that one yielded no candidate, and always when it yielded none.
C16_AsStated ==
    /\ (ByName /\ fpc /= "init") => requests[1].ep = "patient?lname"
    /\ \A i \in 1..Len(requests) :
            requests[i].ep = "patient?fname" =>
                /\ i = 2 /\ requests[1].ep = "patient?lname"
                /\ Len(found) >= 1 /\ found[1] = <<>>
    /\ (ByName /\ Len(found) >= 1 /\ found[1] = <<>>) => Requested("patient?fname")

\* C17: when the last-name query and the first-name query have both been
\* answered with no candidate, the call has returned the NoMatch result: no
\* appointments, total_count 0, the no-patients-found message; and it has
\* made no other request.
C17_NoMatch ==
    (ByName /\ Len(found) = 2 /\ found[1] = <<>> /\ found[2] = <<>>) =>
        /\ fpc = "returned"
        /\ result.kind = "result"
        /\ result.appointments = <<>>
        /\ result.total_count = 0
        /\ result.message = NoMatchMessage
        /\ result.matching_patients = <<>>
        /\ Endpoints = <<"patient?lname", "patient?fname">>

\* Both queries were answered with no candidate.
C17_Witness ==
    /\ fpc = "returned" /\ result.message = NoMatchMessage
    /\ found = <<(<<>>), (<<>>)>>
    /\ Len(requests) = 2

\* The appointment ids of the returned appointments, and of the records recs.
ReturnedIds == [i \in 1..Len(result.appointments) |-> result.appointments[i].appointment_id]
IdsOf(recs) == [i \in 1..Len(recs) |-> recs[i].pc_eid]

\* C18: the returned appointments are exactly the fetched records that
\* satisfy every supplied filter (date equal, status code equal, provider
\* name a case-insensitive substring), in their order: none that fails a
\* supplied filter, none missing that satisfies all of them.
C18_Conjunctive ==
    fpc = "returned" =>
        /\ ReturnedIds = IdsOf(SelectSeq(raw, MeetsCriteria))
        /\ result.total_count = Cardinality({i \in 1..Len(raw) : MeetsCriteria(raw[i])})

\* All three filters were applied to a record that satisfies them all and a
\* record that satisfies the date filter only: the first alone is returned.
C18_Witness ==
    /\ fpc = "returned"
    /\ args.date = "D1" /\ args.status = "@" /\ args.provider_name = <<"B", "O">>
    /\ raw = <<Rec("D1", "@", <<"b", "o">>), Rec("D1", "-", <<"C">>)>>
    /\ ReturnedIds = <<1>>

\* C19: applying the date, status and provider filters to the fetched records
\* in any of the six orders gives the sequence that the order of the code
\* (date, status, provider) gives, which is the sequence returned.
C19_OrderIrrelevant ==
    fpc = "returned" =>
        LET D(r) == FilterByDate(r, args)
            S(r) == FilterByStatus(r, args)
            P(r) == FilterByProvider(r, args)
            fixed == P(S(D(raw)))
        IN  /\ fixed = Filtered(raw, args)
            /\ ReturnedIds = IdsOf(fixed)
            /\ P(D(S(raw))) = fixed
            /\ S(P(D(raw))) = fixed
            /\ S(D(P(raw))) = fixed
            /\ D(P(S(raw))) = fixed
            /\ D(S(P(raw))) = fixed

\* All three filters were applied to two records of which each filter alone
\* would keep a different part.
C19_Witness ==
    /\ fpc = "returned"
    /\ args.date = "D1" /\ args.status = "@" /\ args.provider_name = <<"B", "O">>
    /\ raw = <<Rec("D2", "@", <<"b", "o">>), Rec("D1", "@", <<"C">>)>>
    /\ result.total_count = 0

\* The place of identifier p in resolved_pids.
PidIndex(p) == CHOOSE k \in 1..Len(pids) : pids[k] = p
\* The patients of the fetched records, in the order of raw_appointments.
RawPids == [i \in 1..Len(raw) |-> raw[i].pc_pid]

\* C20: with resolved identifiers, the per-patient fetches are requested once
\* per identifier, in identifier order, one at a time (a fetch is requested
\* after the previous one was answered), and the unscoped fetch is not; each
\* answer's records are appended to the records fetched so far, so the
\* fetched records are the answers' records in identifier order; a call that
\* returns has fetched for every identifier.
C20_FetchInOrder ==
    /\ [](pids /= <<>> =>
            /\ IsPrefix(FetchedPids, pids)
            /\ ~Requested("appointment")
            /\ Cardinality({c \in DOMAIN pc : pc[c] \notin {"idle", "done"}}) <= 1
            /\ \A i, j \in 1..Len(raw) :
                    i < j => PidIndex(raw[i].pc_pid) <= PidIndex(raw[j].pc_pid)
            /\ \A k \in 1..Len(pids) :
                    SelectSeq(raw, LAMBDA r : r.pc_pid = pids[k]) \in ApptLists(pids[k])
            /\ fpc = "returned" => FetchedPids = pids)
    /\ [][(fpc = "fetch" /\ raw' /= raw) =>
            \E answer \in ApptLists(pids[Len(FetchedPids)]) : raw' = raw \o answer]_vars

\* Fetches for 5 identifiers, of which the 1st, 3rd and 5th returned records.
C20_Witness ==
    /\ fpc = "returned"
    /\ pids = <<1, 2, 3, 4, 5>>
    /\ FetchedPids = pids
    /\ RawPids = <<1, 1, 3, 3, 5, 5>>

\* A bare list l, and the object holding l under "data".
Bare(l) == [shape |-> "list", items |-> l]
Envelope(l) == [shape |-> "envelope", items |-> l]
\* find_appointments resumes with the answer of a get() that returned.
Answered == fpc \in {"lname", "fname", "fetch", "all"} /\ GetEnded /\ outcome.kind = "ok"

\* C21: a step in which find_appointments processes the answer of a patient
\* search or of an appointment fetch is a step for the bare list l exactly
\* when it is a step for the object holding l under "data": what the call
\* requests next, fetches, and returns is the same for both shapes.
C21_ShapesEquivalent ==
    [][Answered =>
        /\ fpc = "lname" => \A l \in PatientLists :
                LastNameAnswered(Bare(l)) <=> LastNameAnswered(Envelope(l))
        /\ fpc = "fname" => \A l \in PatientLists :
                FirstNameAnswered(Bare(l)) <=> FirstNameAnswered(Envelope(l))
        /\ fpc = "fetch" => \A l \in ApptLists(pids[Fetched]) :
                FetchAnswered(Bare(l)) <=> FetchAnswered(Envelope(l))
        /\ fpc = "all" => \A l \in ApptLists(0) \cup ApptLists(1) :
                AllAnswered(Bare(l)) <=> AllAnswered(Envelope(l))]_vars

\* A search and a fetch were answered with records, and the call returned them.
C21_Witness ==
    /\ fpc = "returned"
    /\ Len(found) = 1 /\ Len(found[1]) = 1
    /\ Len(raw) = 2 /\ result.total_count = 2

\* The fields of a formatted appointment that are strings.
StringFields == {"patient_name", "date", "start_time", "end_time", "status",
                 "status_label", "category", "facility", "reason"}
\* The raw fields each formatted field is made from.
SourcesOf(field) ==
    CASE field = "appointment_id" -> {"pc_eid"}
      [] field = "patient_name" -> {"fname", "lname"}
      [] field = "patient_id" -> {"pc_pid", "pid"}
      [] field = "provider_name" -> {"pce_aid_fname", "pce_aid_lname"}
      [] field = "date" -> {"pc_eventDate"}
      [] field = "start_time" -> {"pc_startTime"}
      [] field = "end_time" -> {"pc_endTime"}
      [] field \in {"status", "status_label"} -> {"pc_apptstatus"}
      [] field = "category" -> {"pc_title"}
      [] field = "facility" -> {"facility_name"}
      [] field = "reason" -> {"pc_hometext"}
AllFields == StringFields \cup {"appointment_id", "patient_id", "provider_name"}
\* Record r has none of the raw fields that field is made from.
Missing(r, field) == SourcesOf(field) \cap DOMAIN r = {}
\* The formatted field is the empty string (provider names are sequences of
\* characters).
IsEmptyString(o, field) ==
    IF field = "provider_name" THEN o[field] = <<>> ELSE o[field] = ""

LabelTable ==
    <<  <<"-", "Open">>, <<"@", "Arrived">>, <<"~", "Arrived late">>,
        <<"!", "Left w/o being seen">>, <<"#", "Ins/fin issue">>,
        <<"<", "In exam room">>, <<">", "Checked out">>, <<"$", "Coding done">>,
        <<"%", "Cancelled">>, <<"x", "No show">>, <<"^", "Pending">>  >>

\* C23: the status label of a formatted appointment is determined by its
\* status code: a code of the table has the label of the table, whatever the
\* other fields of the record, and any other code is its own label.
C23_LabelOfCode ==
    fpc = "returned" =>
        \A i \in 1..Len(result.appointments) :
            LET o == result.appointments[i]
            IN  /\ \A k \in 1..Len(LabelTable) :
                        o.status = LabelTable[k][1] => o.status_label = LabelTable[k][2]
                /\ (\A k \in 1..Len(LabelTable) : o.status /= LabelTable[k][1]) =>
                        o.status_label = o.status
                /\ o.status = Field(raw[i], "pc_apptstatus", "")

\* A record with the code "x" has been formatted.
C23_Witness ==
    /\ fpc = "returned"
    /\ Field(raw[1], "pc_apptstatus", "") = "x"
    /\ "pc_eid" \in DOMAIN raw[1] /\ "pc_eventDate" \in DOMAIN raw[1]
    /\ result.appointments[1].status_label = "No show"

EmptyResultMessage == "No appointments found matching criteria."

\* C24: a returned result has a message exactly when its appointments list
\* is empty; the message is the NoMatch one after a search without candidate,
\* the Ambiguous one after a search with more than 5, and the no-appointments
\* one after a fetch whose records were all filtered out (or that returned
\* none); matching_patients is present only in the Ambiguous result.
C24_MessagePresence ==
    fpc = "returned" =>
        /\ (result.message /= "") <=> (result.appointments = <<>>)
        /\ result.message = NoMatchMessage <=> (Searched /\ Candidates = <<>>)
        /\ result.message = AmbiguousMessage <=> (Searched /\ Len(Candidates) > 5)
        /\ result.message = EmptyResultMessage <=>
                (result.appointments = <<>> /\ (Requested("appointment") \/ Requested("patient_appointment")))
        /\ result.message \in {"", NoMatchMessage, AmbiguousMessage, EmptyResultMessage}
        /\ result.matching_patients /= <<>> => result.message = AmbiguousMessage

\* Records were fetched and all filtered out: the result has the message.
C24_Witness ==
    /\ fpc = "returned"
    /\ raw /= <<>> /\ result.appointments = <<>>
    /\ result.message = EmptyResultMessage
    /\ result.matching_patients = <<>>

TimeoutEvents == {TokAns("Timeout"), ResAns(TimedOut)}

\* C25: a request that times out (the token request, the first resource
\* request or the retried one) is the last thing its call does: the call sends
\* nothing after it and ends with the timeout error; and a call ends with the
\* timeout error only so.
C25_TimeoutNotRetried ==
    /\ \A tr \in Traces : \A i \in 1..Len(tr) :
            tr[i] \in TimeoutEvents =>
                /\ i = Len(tr)
                /\ tr = outcome.trace
                /\ outcome.kind = "Timeout"
    /\ outcome.kind = "Timeout" =>
            /\ outcome.trace[Len(outcome.trace)] \in TimeoutEvents
            /\ Count(outcome.trace, TokAns("Timeout")) + Count(outcome.trace, ResAns(TimedOut)) = 1

\* The retried request of a call timed out.
C25_Witness ==
    /\ outcome.kind = "Timeout"
    /\ outcome.trace = <<ResReq, ResAns(401), TokReq, TokAns("none"), ResReq, ResAns(TimedOut)>>

\* The resource answers with an error status, and the status of each.
ErrorAnswers == {ResAns(401), ResAns(500)}
StatusOf(e) == IF e = ResAns(401) THEN 401 ELSE 500

\* C26: a call whose last resource answer has an error status ends with the
\* HTTP error of that status, and a call ends with an HTTP error only so; an
\* error status other than 401 on the first request ends the call at once:
\* no token request and no resource request follows it.
C26_ErrorStatusFails ==
    /\ \A tr \in Traces : \A i \in 1..Len(tr) :
            tr[i] = ResAns(500) =>
                /\ i = Len(tr)
                /\ tr = outcome.trace
    /\ Finished =>
            LET tr == outcome.trace
                last == tr[Len(tr)]
            IN  /\ last \in ErrorAnswers =>
                        outcome.kind = "HttpError" /\ outcome.status = StatusOf(last)
                /\ outcome.kind = "HttpError" => last \in ErrorAnswers
                /\ (last = ResAns(401)) => Count(tr, ResAns(401)) = 2
                /\ outcome.kind = "ok" <=> last = ResAns(200)

\* A first request on a valid token was answered 500.
C26_Witness ==
    /\ outcome.kind = "HttpError" /\ outcome.status = 500
    /\ outcome.trace = <<ResReq, ResAns(500)>>
    /\ exchanges = 1

\* C27: in every reachable state, whatever has failed before, a call that has
\* not started can start; a call waiting for the token endpoint goes on to its
\* resource request if the exchange is accepted; a call waiting for a resource
\* answer returns normally if the request is accepted.
C27_NoTerminalState ==
    \A c \in DOMAIN pc :
        /\ pc[c] = "idle" => ENABLED (Get(c) /\ Post(c))
        /\ pc[c] \in {"wait_auth1", "wait_auth2"} =>
                ENABLED (AuthRecv(c) /\ pc'[c] \in {"wait_resp1", "wait_resp2"}
                            /\ access_token' /= None)
        /\ pc[c] \in {"wait_resp1", "wait_resp2"} =>
                ENABLED ((RecvFirst(c) \/ RecvRetry(c)) /\ pc'[c] = "done"
                            /\ outcome'.kind = "ok")

\* An authentication has failed, no token is cached, and a call is yet to start.
C27_Witness ==
    /\ outcome.kind = "AuthError"
    /\ access_token = None
    /\ \E c \in DOMAIN pc : pc[c] = "idle"

\* C28: a resource request carries the token that is cached when it is sent,
\* never an absent one; a call that starts with a valid cached token sends it
\* at once; a call that starts without one sends the token request first and
\* its resource request only when that exchange has succeeded, with the token
\* the exchange returned (likewise the retry after a 401).
C28_BearerIsCachedToken ==
    [][\A c \in DOMAIN pc :
        /\ SendsResource(c) =>
            /\ bearer'[c] = access_token'
            /\ bearer'[c] /= None
            /\ pc[c] = "idle" =>
                    /\ access_token /= None /\ now < token_expiry - 60
                    /\ bearer'[c] = access_token
            /\ pc[c] \in {"wait_auth1", "wait_auth2"} =>
                    /\ bearer'[c] = TokenOf(c, pc[c])
                    /\ trace'[c][Len(trace'[c]) - 1] = TokAns("none")
        /\ (EnsureStep(c) /\ ~(access_token /= None /\ now < token_expiry - 60)) =>
            /\ pc'[c] = "wait_auth1"
            /\ ~SendsResource(c)
            /\ exchanges' = exchanges + 1]_vars

\* A retried request carries the token of the re-authentication.
C28_Witness ==
    \E c \in DOMAIN pc :
        /\ pc[c] = "wait_resp2"
        /\ bearer[c] = TokenOf(c, "wait_auth2")
        /\ bearer[c] = access_token

\* The token answers with which authenticate() succeeds.
Accepted == {r \in AuthResponses : r.status = 200 /\ r.shape \in {"full", "no_expires_in"}}

\* C29: a step in which authenticate() succeeds is the step for an accepted
\* answer, and after the step for the accepted answer r the cached token is
\* the one r returned and the cached expiry is the time of the step plus the
\* lifetime r reports, or plus 3600 when r reports none.
C29_ExpiryIsNowPlusLifetime ==
    [][\A c \in DOMAIN pc :
        pc[c] \in {"wait_auth1", "wait_auth2"} =>
            /\ pc'[c] \in {"wait_resp1", "wait_resp2"} => \E r \in Accepted : AuthAnswered(c, r)
            /\ \A r \in Accepted :
                    AuthAnswered(c, r) =>
                        /\ access_token' = TokenOf(c, pc[c])
                        /\ token_expiry' = now + (IF r.shape = "no_expires_in" THEN 3600
                                                  ELSE r.expires_in)
                        /\ now' = now]_vars

\* An exchange after the clock has advanced was answered without a lifetime.
C29_Witness ==
    /\ access_token /= None
    /\ expiry_exchange = access_token
    /\ token_expiry > 3600
    /\ token_expiry = now + 3600

\* C30: register_client returns the registration response when the server
\* answers 200 or 201, raises the authentication error for any other status,
\* and never changes the cached credential of a client instance, nor the
\* progress of a call made on one.
C30_RegisterClient ==
    [][reg' /= reg =>
        /\ reg'.status \in {200, 201} => reg'.kind = "returned" /\ reg'.value = RegistrationResponse
        /\ reg'.status \notin {200, 201, TimedOut} => reg'.kind = "AuthError"
        /\ reg'.kind = "returned" => reg'.status \in {200, 201}
        /\ UNCHANGED <<cred, exchanges, pc, bearer, trace, outcome, ens>>]_vars

\* A registration answered 201 has returned while the client holds a credential.
C30_Witness ==
    /\ access_token /= None
    /\ reg.kind = "returned"
    /\ reg.status = 201

\* The answers in trace tr, in order.
AnswersOf(tr) == SelectSeq(tr, LAMBDA e : e \in TokAnswers \cup ResAnswers)
\* The protocol: the trace that begins with tr and receives the answers ans,
\* retried telling whether the 401 recovery has been used.
RECURSIVE Replay(_, _, _)
Replay(tr, ans, retried) ==
    IF ans = <<>> THEN tr
    ELSE LET a == Head(ans)
             t == Append(tr, a)
         IN  CASE a = TokAns("none") -> Replay(Append(t, ResReq), Tail(ans), retried)
               [] a = ResAns(401) /\ ~retried -> Replay(Append(t, TokReq), Tail(ans), TRUE)
               [] OTHER -> t
\* The kind of outcome the protocol ends with after the answer a.
KindAfter(a) ==
    CASE a = ResAns(200) -> "ok"
      [] a \in {ResAns(TimedOut), TokAns("Timeout")} -> "Timeout"
      [] a \in ResAnswers -> "HttpError"
      [] a = TokAns("AuthError") -> "AuthError"
      [] a = TokAns("KeyError") -> "KeyError"
      [] OTHER -> "ValueError"
Conforms(tr) == tr /= <<>> => tr = Replay(<<tr[1]>>, AnswersOf(tr), FALSE)

C32_RetryCarriesOwnToken ==
    /\ [][\A c \in DOMAIN pc :
            pc[c] = "wait_auth2" /\ pc'[c] = "wait_resp2" =>
                /\ SendsResource(c)
                /\ bearer'[c] = TokenOf(c, "wait_auth2")
                /\ bearer'[c] = access_token'
                /\ bearer'[c] /= bearer[c]
                /\ \A d \in DOMAIN pc \ {c} :
                        bearer'[c] \notin {TokenOf(d, "wait_auth1"), TokenOf(d, "wait_auth2")}]_vars
    /\ [](\A c \in DOMAIN pc : pc[c] = "wait_resp2" => bearer[c] = TokenOf(c, "wait_auth2"))

\* Two callers have each re-authenticated after a 401 and await their retried
\* requests, the second exchange having replaced the token the first stored.
C32_Witness ==
    /\ \A c \in DOMAIN pc : pc[c] = "wait_resp2" /\ bearer[c] = TokenOf(c, "wait_auth2")
    /\ \E c \in DOMAIN pc : bearer[c] /= access_token

\* The requests of trace tr.
RequestsOf(tr) == SelectSeq(tr, LAMBDA e : e \in {TokReq, ResReq})

\* C33: a get or post call sends at most two token requests (at most one of
\* them from _ensure_token, at most one from the 401 recovery) and at most two
\* resource requests, whatever the answers are, and the answer to its second
\* resource request ends it: nothing re-enters the retry.
C33_BoundedRequests ==
    /\ [](\A tr \in Traces :
            /\ Count(tr, TokReq) <= 2
            /\ Count(tr, ResReq) <= 2
            /\ Count(tr, ResReq) = 2 => First401(tr)
            /\ Count(tr, TokReq) = 2 => tr[1] = TokReq /\ First401(tr))
    /\ [][\A c \in DOMAIN pc :
            /\ Count(trace[c], ResReq) = 2 /\ trace'[c] /= trace[c] => pc'[c] = "done"
            /\ Len(RequestsOf(trace'[c])) <= 4
            /\ pc[c] \notin {"idle", "done"} /\ trace'[c] /= trace[c] =>
                    \/ pc'[c] = "done"
                    \/ Len(RequestsOf(trace'[c])) = Len(RequestsOf(trace[c])) + 1]_vars

\* A call has used all four requests and ended on the second 401.
C33_Witness ==
    /\ Finished
    /\ outcome.kind = "HttpError"
    /\ outcome.status = 401
    /\ Len(RequestsOf(outcome.trace)) = 4

\* The distinct patients whose appointments have been requested.
FetchedSet == {FetchedPids[i] : i \in 1..Len(FetchedPids)}

\* C34: in a call without patient_id and with a patient_name, at most 5
\* per-patient appointment requests are made, for at most 5 distinct patients,
\* and each requested identifier is the pid of a candidate the patient search
\* returned.
C34_AtMostFiveFetched ==
    ByName =>
        /\ Len(FetchedPids) <= 5
        /\ Cardinality(FetchedSet) <= 5
        /\ FetchedPids /= <<>> =>
                /\ Searched
                /\ FetchedSet \subseteq {Candidates[j].pid : j \in 1..Len(Candidates)}

\* A name search has led to requests for 5 distinct patients.
C34_Witness ==
    /\ ByName
    /\ Cardinality(FetchedSet) = 5
    /\ raw /= <<>>

\* C35: in every result find_appointments returns (no patient matched, too
\* many matched, no appointment left, some appointments), total_count is the
\* length of the appointments list.
C35_TotalCountIsLength ==
    result.kind = "result" => result.total_count = Len(result.appointments)

\* A call has returned some, not all, of the records it fetched.
C35_Witness ==
    /\ result.kind = "result"
    /\ result.total_count >= 1
    /\ result.total_count = Len(result.appointments)
    /\ Len(raw) > result.total_count

\* The records of recs at the places S, in the order of recs.
Pick(recs, S) ==
    [i \in 1..Cardinality(S) |->
        recs[CHOOSE k \in S : Cardinality({j \in S : j <= k}) = i]]
NoFilters == args.date = "" /\ args.status = "" /\ args.provider_name = <<>>

\* C36: the returned appointments are the formatted images of a subsequence
\* of the fetched records, in the order of the fetched records, each with the
\* pc_eid of its record as appointment_id; with no filter supplied they are
\* the images of all the fetched records, one for one (a record fetched twice
\* is returned twice).
C36_OrderAndMultiplicity ==
    (fpc = "returned" /\ result.kind = "result") =>
        /\ \E S \in SUBSET (1..Len(raw)) :
                /\ Len(result.appointments) = Cardinality(S)
                /\ \A i \in 1..Cardinality(S) :
                        /\ result.appointments[i] = FormatAppointment(Pick(raw, S)[i])
                        /\ result.appointments[i].appointment_id = Pick(raw, S)[i].pc_eid
        /\ NoFilters =>
                /\ result.total_count = Len(raw)
                /\ \A i \in 1..Len(raw) :
                        /\ result.appointments[i] = FormatAppointment(raw[i])
                        /\ result.appointments[i].appointment_id = raw[i].pc_eid

\* Two different records were fetched and no filter was supplied: both are
\* returned, the first one first.
C36_Witness ==
    /\ fpc = "returned"
    /\ NoFilters
    /\ Len(raw) = 2
    /\ raw[1].pc_eid /= raw[2].pc_eid
    /\ result.total_count = 2
    /\ result.appointments[1].appointment_id = raw[1].pc_eid
    /\ result.appointments[2].appointment_id = raw[2].pc_eid

\* C37 as stated: when a provider_name filter is supplied, the provider_name
\* of every returned appointment contains the requested name as a
\* case-insensitive substring, also for records whose provider first or last
\* name is missing or empty.
C37_AsStated ==
    (fpc = "returned" /\ args.provider_name /= <<>>) =>
        \A i \in 1..Len(result.appointments) :
            IsSubstring(Lower(args.provider_name), Lower(result.appointments[i].provider_name))

\* find_appointments has ended: it returned a result or raised.
Ended == fpc \in {"returned", "raised"}

\* C38: find_appointments closes its client on every exit path: once it has
\* returned a result or raised (timeout, HTTP status error, authentication
\* error, malformed token answer) the client has been closed exactly once;
\* while it runs the client is open, and it is closed in the step that ends
\* the call, after which the client sends nothing.
C38_ClosedExactlyOnce ==
    /\ [](closed = IF Ended THEN 1 ELSE 0)
    /\ [][closed' /= closed => (~Ended /\ Ended' /\ closed' = closed + 1)]_vars
    /\ [][Ended => (exchanges' = exchanges /\ requests' = requests /\ trace' = trace)]_vars

\* A call has ended in the authentication error of a re-authentication after a
\* 401, with its client closed.
C38_Witness ==
    /\ fpc = "raised"
    /\ result.kind = "AuthError"
    /\ First401(outcome.trace)
    /\ closed = 1

====
